---- MODULE Spec2Model ----
(***************************************************************************)
(* Model of the tool-call execution coordinator                            *)
(*   codex-rs/core/src/tools/parallel.rs   (ToolCallRuntime)               *)
(* and of the session-scoped tool result cache                             *)
(*   codex-rs/core/src/state/session.rs    (SessionState)                  *)
(*                                                                         *)
(* Text (Rust String / &str) is modelled as a sequence of tokens; a token  *)
(* is a TLA+ string standing for a run of characters.  Concatenation of    *)
(* text is concatenation of sequences, so two texts that are equal as      *)
(* token sequences are equal as Rust strings.                              *)
(***************************************************************************)
EXTENDS Integers, Sequences, FiniteSets, TLC

\* ------------------------------------------------------------------ bounds

\* Number of handle_tool_call invocations issued on the coordinator.
NumCalls == 2
\* Largest value of the monotonic clock (Instant::now(), in seconds).
MaxClock == 2
Calls == 1..NumCalls

\* Option<T>: None and Some(x).
NoneV == [some |-> FALSE]

Some(x) == [some |-> TRUE, v |-> x]

\* -------------------------------------------------------------------- text

WS == " "

IsWs(tok) == tok = WS

RECURSIVE TrimStart(_)
TrimStart(s) ==
    IF s # <<>> /\ IsWs(Head(s)) THEN TrimStart(Tail(s)) ELSE s

RECURSIVE TrimEnd(_)
TrimEnd(s) ==
    IF s # <<>> /\ IsWs(s[Len(s)]) THEN TrimEnd(SubSeq(s, 1, Len(s) - 1)) ELSE s

\* str::trim
Trim(s) == TrimEnd(TrimStart(s))

\* [T]::join(sep) on a sequence of texts
RECURSIVE Join(_, _)
Join(parts, sep) ==
    IF parts = <<>> THEN <<>>
    ELSE IF Len(parts) = 1 THEN parts[1]
    ELSE parts[1] \o sep \o Join(Tail(parts), sep)

\* ------------------------------------------------------ serde_json (subset)
\* JSON texts are token sequences over the structural tokens { } [ ] : , the
\* whitespace token, string literals and scalar literals.

JsonStringLits == {"\"a\"", "\"b\"", "\"\\u0061\""}

JsonScalars == {"1", "2"}

\* The string a literal denotes, written as the literal serde_json prints
\* for it: the escape \u0061 denotes the letter a.
StringOf(tok) == IF tok = "\"\\u0061\"" THEN "\"a\"" ELSE tok

\* String's Ord on the denoted strings.
KeyOrder == <<"\"a\"", "\"b\"">>

KeyRank(k) == CHOOSE i \in 1..Len(KeyOrder) : KeyOrder[i] = k

RECURSIVE SkipWs(_, _)
SkipWs(s, i) ==
    IF i <= Len(s) /\ IsWs(s[i]) THEN SkipWs(s, i + 1) ELSE i

ParseFail == [ok |-> FALSE]

ParseOk(val, next) == [ok |-> TRUE, val |-> val, next |-> next]

\* Map::insert: an existing key keeps its place and takes the new value.
MapInsert(m, k, val) ==
    IF \E i \in 1..Len(m) : m[i][1] = k
    THEN [i \in 1..Len(m) |-> IF m[i][1] = k THEN <<k, val>> ELSE m[i]]
    ELSE Append(m, <<k, val>>)

RECURSIVE ParseValue(_, _)
RECURSIVE ParseElems(_, _, _)
RECURSIVE ParseMembers(_, _, _)

ParseValue(s, i) ==
    LET j == SkipWs(s, i) IN
    IF j > Len(s) THEN ParseFail
    ELSE IF s[j] \in JsonStringLits
         THEN ParseOk([t |-> "string", s |-> StringOf(s[j])], j + 1)
    ELSE IF s[j] \in JsonScalars
         THEN ParseOk([t |-> "scalar", s |-> s[j]], j + 1)
    ELSE IF s[j] = "["
         THEN LET k == SkipWs(s, j + 1) IN
              IF k <= Len(s) /\ s[k] = "]"
              THEN ParseOk([t |-> "array", items |-> <<>>], k + 1)
              ELSE ParseElems(s, j + 1, <<>>)
    ELSE IF s[j] = "{"
         THEN LET k == SkipWs(s, j + 1) IN
              IF k <= Len(s) /\ s[k] = "}"
              THEN ParseOk([t |-> "object", members |-> <<>>], k + 1)
              ELSE ParseMembers(s, j + 1, <<>>)
    ELSE ParseFail

ParseElems(s, i, acc) ==
    LET r == ParseValue(s, i) IN
    IF ~r.ok THEN ParseFail
    ELSE LET k == SkipWs(s, r.next) IN
         IF k > Len(s) THEN ParseFail
         ELSE IF s[k] = "," THEN ParseElems(s, k + 1, Append(acc, r.val))
         ELSE IF s[k] = "]"
              THEN ParseOk([t |-> "array", items |-> Append(acc, r.val)], k + 1)
         ELSE ParseFail

ParseMembers(s, i, acc) ==
    LET j == SkipWs(s, i) IN
    IF j > Len(s) \/ s[j] \notin JsonStringLits THEN ParseFail
    ELSE LET c == SkipWs(s, j + 1) IN
         IF c > Len(s) \/ s[c] # ":" THEN ParseFail
         ELSE LET r == ParseValue(s, c + 1) IN
              IF ~r.ok THEN ParseFail
              ELSE LET k == SkipWs(s, r.next)
                       m == MapInsert(acc, StringOf(s[j]), r.val)
                   IN IF k > Len(s) THEN ParseFail
                      ELSE IF s[k] = "," THEN ParseMembers(s, k + 1, m)
                      ELSE IF s[k] = "}"
                           THEN ParseOk([t |-> "object", members |-> m], k + 1)
                      ELSE ParseFail

\* serde_json::from_str::<Value>: one value, then only whitespace.
from_str(raw) ==
    LET r == ParseValue(raw, 1) IN
    IF r.ok /\ SkipWs(raw, r.next) > Len(raw) THEN r ELSE ParseFail

\* keys.sort(): insertion into a list kept ordered by key.
RECURSIVE SortMembers(_)
SortMembers(m) ==
    IF m = <<>> THEN <<>>
    ELSE LET rest == SortMembers(Tail(m))
             k == KeyRank(Head(m)[1])
             below == SelectSeq(rest, LAMBDA p : KeyRank(p[1]) < k)
             above == SelectSeq(rest, LAMBDA p : KeyRank(p[1]) >= k)
         IN below \o <<Head(m)>> \o above

\* A variant of canonicalize_json_value that sorts the keys of the outermost
\* object only.
canonicalize_top_level(value) ==
    IF value.t = "object"
    THEN [t |-> "object", members |-> SortMembers(value.members)]
    ELSE value

RECURSIVE canonicalize_json_value(_)
canonicalize_json_value(value) ==
    IF value.t = "object"
    THEN [t |-> "object",
          members |-> SortMembers(
              [i \in 1..Len(value.members) |->
                  <<value.members[i][1],
                    canonicalize_json_value(value.members[i][2])>>])]
    ELSE IF value.t = "array"
    THEN [t |-> "array",
          items |-> [i \in 1..Len(value.items) |->
                        canonicalize_json_value(value.items[i])]]
    ELSE value

\* Value::to_string: the compact form, no whitespace.
RECURSIVE to_string(_)
to_string(value) ==
    IF value.t = "object"
    THEN <<"{">>
         \o Join([i \in 1..Len(value.members) |->
                    <<value.members[i][1], ":">> \o to_string(value.members[i][2])],
                 <<",">>)
         \o <<"}">>
    ELSE IF value.t = "array"
    THEN <<"[">>
         \o Join([i \in 1..Len(value.items) |-> to_string(value.items[i])], <<",">>)
         \o <<"]">>
    ELSE <<value.s>>

canonical_json_or_raw(raw) ==
    LET r == from_str(raw) IN
    IF r.ok THEN to_string(canonicalize_json_value(r.val)) ELSE Trim(raw)

\* ------------------------------------------------------------- cache keys

\* u64's Display, for the timeouts the model uses.
NumText(n) == <<"0", "1", "2", "3", "4", "5", "6", "7", "8", "9">>[n + 1]

\* Option<String>::as_deref().unwrap_or_default()
TextOrDefault(opt) == IF opt.some THEN opt.v ELSE <<>>

\* Option<u64>::unwrap_or_default()
NumOrDefault(opt) == IF opt.some THEN opt.v ELSE 0

tool_call_cache_key(call) ==
    LET p == call.payload IN
    CASE p.variant = "Function" ->
            call.tool_name \o <<"|", "fn", "|">> \o canonical_json_or_raw(p.arguments)
      [] p.variant = "Custom" ->
            call.tool_name \o <<"|", "custom", "|">> \o Trim(p.input)
      [] p.variant = "LocalShell" ->
            call.tool_name \o <<"|", "local_shell", "|">>
            \o Join(p.params.command, <<"\\u{1f}">>) \o <<"|">>
            \o TextOrDefault(p.params.workdir) \o <<"|">>
            \o <<NumText(NumOrDefault(p.params.timeout_ms))>>
      [] p.variant = "Mcp" ->
            call.tool_name \o <<"|", "mcp", "|">> \o p.server \o <<"|">>
            \o p.tool \o <<"|">> \o canonical_json_or_raw(p.raw_arguments)

\* -------------------------------------------------------------- responses
\* ResponseInputItem and its four variants.

FunctionCallOutput(call_id, body, success) ==
    [variant |-> "FunctionCallOutput", call_id |-> call_id,
     output |-> [body |-> body, success |-> success]]

McpToolCallOutput(call_id, result) ==
    [variant |-> "McpToolCallOutput", call_id |-> call_id, result |-> result]

CustomToolCallOutput(call_id, output) ==
    [variant |-> "CustomToolCallOutput", call_id |-> call_id, output |-> output]

Message(content) == [variant |-> "Message", role |-> "user", content |-> content]

\* Result<T, E>
Ok(x) == [ok |-> TRUE, v |-> x]

Err(e) == [ok |-> FALSE, v |-> e]

\* The elapsed wall time printed with one decimal; its digits are not modelled.
SecsText == "{secs:.1}"

abort_message(call) ==
    IF call.tool_name \in {<<"shell">>, <<"container.exec">>, <<"local_shell">>,
                           <<"shell_command">>, <<"unified_exec">>}
    THEN <<"Wall time: ", SecsText, " seconds\naborted by user">>
    ELSE <<"aborted by user after ", SecsText, "s">>

aborted_response(call) ==
    CASE call.payload.variant = "Custom" ->
            CustomToolCallOutput(call.call_id, abort_message(call))
      [] call.payload.variant = "Mcp" ->
            McpToolCallOutput(call.call_id, Err(abort_message(call)))
      [] OTHER ->
            FunctionCallOutput(call.call_id, abort_message(call), NoneV)

\* A variant of tool_supports_turn_cache that accepts every tool.
tool_supports_turn_cache_always(tool_name) == TRUE

tool_supports_turn_cache(tool_name) ==
    tool_name \in {<<"search_query">>, <<"image_query">>, <<"weather">>,
                   <<"sports">>, <<"finance">>, <<"time">>,
                   <<"list_mcp_resources">>, <<"list_mcp_resource_templates">>,
                   <<"read_mcp_resource">>, <<"search_tool_bm25">>,
                   <<"read_file">>, <<"list_dir">>, <<"grep_files">>,
                   <<"view_image">>}

tool_supports_session_cache(tool_name) ==
    tool_name \in {<<"search_query">>, <<"image_query">>, <<"weather">>,
                   <<"sports">>, <<"finance">>, <<"time">>,
                   <<"list_mcp_resources">>, <<"list_mcp_resource_templates">>,
                   <<"read_mcp_resource">>, <<"search_tool_bm25">>}

\* A variant of should_cache_tool_response that looks at the variant only.
should_cache_by_variant(response) == response.variant # "Message"

should_cache_tool_response(response) ==
    CASE response.variant = "FunctionCallOutput" ->
            IF response.output.success.some THEN response.output.success.v ELSE TRUE
      [] response.variant = "McpToolCallOutput" -> response.result.ok
      [] response.variant = "CustomToolCallOutput" -> TRUE
      [] response.variant = "Message" -> FALSE

\* A variant of remap_response_call_id that returns the response as stored.
keep_call_id(response, call_id) == response

remap_response_call_id(response, call_id) ==
    IF response.variant = "Message" THEN response
    ELSE [response EXCEPT !.call_id = call_id]

\* ------------------------------------------------- SessionState tool cache
\* st = [cache |-> tool_result_cache, order |-> tool_result_cache_order];
\* the cache is a function from the keys present to CachedToolResult.

Restrict(f, S) == [k \in S |-> f[k]]

\* HashMap::insert
Insert(f, key, val) == [k \in DOMAIN f \cup {key} |-> IF k = key THEN val ELSE f[k]]

\* HashMap::remove
Remove(f, key) == Restrict(f, DOMAIN f \ {key})

\* HashMap::new()
EmptyMap == [k \in {} |-> NoneV]

EmptyToolCache == [cache |-> EmptyMap, order |-> <<>>]

\* A variant of evict_expired_tool_results without the case of a zero max_age.
evict_by_age_only(st, max_age, at) ==
    LET kept == {k \in DOMAIN st.cache : at - st.cache[k].stored_at <= max_age}
    IN [cache |-> Restrict(st.cache, kept),
        order |-> SelectSeq(st.order, LAMBDA k : k \in kept)]

\* A variant of evict_expired_tool_results that drops an entry as old as
\* max_age.
evict_at_max_age(st, max_age, at) ==
    IF max_age = 0 THEN EmptyToolCache
    ELSE LET kept == {k \in DOMAIN st.cache : at - st.cache[k].stored_at < max_age}
         IN [cache |-> Restrict(st.cache, kept),
             order |-> SelectSeq(st.order, LAMBDA k : k \in kept)]

evict_expired_tool_results(st, max_age, at) ==
    IF max_age = 0 THEN EmptyToolCache
    ELSE LET kept == {k \in DOMAIN st.cache : at - st.cache[k].stored_at <= max_age}
         IN [cache |-> Restrict(st.cache, kept),
             order |-> SelectSeq(st.order, LAMBDA k : k \in kept)]

\* A variant of get_cached_tool_result that moves the key it finds to the back
\* of the queue.
get_and_refresh(st, key, max_age, at) ==
    LET after == evict_expired_tool_results(st, max_age, at) IN
    IF key \in DOMAIN after.cache
    THEN [st |-> [cache |-> after.cache,
                  order |-> Append(SelectSeq(after.order, LAMBDA k : k # key), key)],
          ret |-> Some(after.cache[key].response)]
    ELSE [st |-> after, ret |-> NoneV]

\* A variant of get_cached_tool_result that looks at the age of the entry asked
\* for only, and leaves expired entries under other keys where they are.
get_expiring_key_only(st, key, max_age, at) ==
    IF max_age = 0 THEN [st |-> EmptyToolCache, ret |-> NoneV]
    ELSE IF key \notin DOMAIN st.cache THEN [st |-> st, ret |-> NoneV]
    ELSE IF at - st.cache[key].stored_at <= max_age
    THEN [st |-> st, ret |-> Some(st.cache[key].response)]
    ELSE [st |-> [cache |-> Remove(st.cache, key),
                  order |-> SelectSeq(st.order, LAMBDA k : k # key)],
          ret |-> NoneV]

\* Returns the state left behind and the Option returned.
get_cached_tool_result(st, key, max_age, at) ==
    LET after == evict_expired_tool_results(st, max_age, at) IN
    [st |-> after,
     ret |-> IF key \in DOMAIN after.cache
             THEN Some(after.cache[key].response) ELSE NoneV]

\* A variant of EvictOldest that pops the back of the queue.
RECURSIVE EvictNewest(_, _)
EvictNewest(st, max_entries) ==
    IF Len(st.order) > max_entries
    THEN EvictNewest([cache |-> Remove(st.cache, st.order[Len(st.order)]),
                      order |-> SubSeq(st.order, 1, Len(st.order) - 1)],
                     max_entries)
    ELSE st

RECURSIVE EvictOldest(_, _)
EvictOldest(st, max_entries) ==
    IF Len(st.order) > max_entries
    THEN EvictOldest([cache |-> Remove(st.cache, Head(st.order)),
                      order |-> Tail(st.order)],
                     max_entries)
    ELSE st

\* A variant of put_cached_tool_result that pushes the key without removing
\* its old place in the queue.
put_without_retain(st, key, response, max_entries, at) ==
    IF max_entries = 0 THEN EmptyToolCache
    ELSE LET entry == [stored_at |-> at, response |-> response]
         IN EvictOldest([cache |-> Insert(st.cache, key, entry),
                         order |-> Append(st.order, key)], max_entries)

\* A variant of put_cached_tool_result that, given max_entries 0, returns
\* without storing and without clearing.
put_ignored_when_zero(st, key, response, max_entries, at) ==
    IF max_entries = 0 THEN st
    ELSE LET was_present == key \in DOMAIN st.cache
             entry == [stored_at |-> at, response |-> response]
             cache == Insert(st.cache, key, entry)
             order == IF was_present
                      THEN SelectSeq(st.order, LAMBDA existing : existing # key)
                      ELSE st.order
         IN EvictOldest([cache |-> cache, order |-> Append(order, key)], max_entries)

put_cached_tool_result(st, key, response, max_entries, at) ==
    IF max_entries = 0 THEN EmptyToolCache
    ELSE LET was_present == key \in DOMAIN st.cache
             entry == [stored_at |-> at, response |-> response]
             cache == Insert(st.cache, key, entry)
             order == IF was_present
                      THEN SelectSeq(st.order, LAMBDA existing : existing # key)
                      ELSE st.order
         IN EvictOldest([cache |-> cache, order |-> Append(order, key)], max_entries)

\* ------------------------------------------------------- configuration
\* CODEX_PERF_TOOL_RESULT_CACHE_MAX_ENTRIES and ..._TTL_SECS, scaled down.
TOOL_RESULT_CACHE_MAX_ENTRIES == 1

TOOL_RESULT_CACHE_TTL_SECS == 1

\* ------------------------------------------------------------- the inputs

JsonA1 == <<"{", "\"a\"", ":", "1", "}">>

\* The calls the model issues: tool name and payload, one of each variant.
Menu ==
    {[tool_name |-> <<"weather">>,
      payload |-> [variant |-> "Function", arguments |-> JsonA1]],
     [tool_name |-> <<"read_mcp_resource">>,
      payload |-> [variant |-> "Mcp", server |-> <<"srv">>, tool |-> <<"read">>,
                   raw_arguments |-> JsonA1]],
     [tool_name |-> <<"read_file">>,
      payload |-> [variant |-> "Custom", input |-> <<"f.txt", WS>>]],
     [tool_name |-> <<"shell">>,
      payload |-> [variant |-> "LocalShell",
                   params |-> [command |-> << <<"ls">> >>, workdir |-> NoneV,
                               timeout_ms |-> NoneV]]]}

\* The process-wide settings a run starts from: the tools for which
\* router.tool_supports_parallel holds, and TOOL_RESULT_CACHE_ENABLED.  Each
\* tool of the menu supports parallel calls under one of them and not under
\* the other.
Configs ==
    {[parallel |-> {<<"read_file">>, <<"read_mcp_resource">>}, enabled |-> TRUE],
     [parallel |-> {<<"weather">>, <<"shell">>}, enabled |-> FALSE]}

ToolNames == {t.tool_name : t \in Menu}

NoCall == [tool_name |-> <<>>, call_id |-> 0, payload |-> [variant |-> "none"]]

\* What one invocation of the router by call c printed.
Body(c) == <<"out", NumText(c)>>

\* FunctionCallError
Fatal(message) == [kind |-> "Fatal", message |-> message]

RespondToModel(message) == [kind |-> "RespondToModel", message |-> message]

\* What router.dispatch_tool_call may return for call c.
RouterOutcomes(c) ==
    {Ok(FunctionCallOutput(c, Body(c), NoneV)),
     Ok(FunctionCallOutput(c, Body(c), Some(TRUE))),
     Ok(FunctionCallOutput(c, Body(c), Some(FALSE))),
     Ok(McpToolCallOutput(c, Ok(Body(c)))),
     Ok(McpToolCallOutput(c, Err(Body(c)))),
     Ok(CustomToolCallOutput(c, Body(c))),
     Ok(Message(Body(c))),
     Err(Fatal(Body(c))),
     Err(RespondToModel(Body(c)))}

\* ---------------------------------------------------------------- state

VARIABLES
    parallel_tools,            \* the tool names router.tool_supports_parallel accepts
    cache_enabled,             \* TOOL_RESULT_CACHE_ENABLED
    now,                       \* Instant::now()
    session,                   \* SessionState's tool_result_cache and its order
    turn_result_cache,         \* cache key -> ResponseInputItem
    turn_inflight_cache,       \* cache key -> the watch channel of its leader
    channel,                   \* per leader: the watch channel it created
    parallel_execution,        \* the RwLock: [readers, writer], sets of calls
    lock,                      \* the three Mutexes: who holds each
    pc,                        \* per call: where its spawned task stands
    call,                      \* per call: the ToolCall
    cache_key,                 \* per call: tool_call_cache_key(call)
    cancellation_token,        \* per call: whether its token has been cancelled
    shared_result_sender,      \* per call: whether it holds the watch::Sender
    waiting_on_existing,       \* per call: the channel whose receiver it cloned
    cached,                    \* per call: the session cache's hit
    cancelled,                 \* per call: the local set by the cancelled branch
    dispatched,                \* per call: what the router returned
    result,                    \* per call: what the spawned task returned
    invoked,                   \* history: the calls that invoked the router
    via,                       \* history: the line each task returned from
    active_at_start,           \* history: the calls in flight when each was issued
    fired_before_publish,      \* history: the token fired on a still unpublished slot
    trace                      \* history: the calls made on the session cache directly

vars == <<parallel_tools, cache_enabled, now, session, turn_result_cache,
          turn_inflight_cache, channel, parallel_execution, lock, pc, call,
          cache_key, cancellation_token, shared_result_sender,
          waiting_on_existing, cached, cancelled, dispatched, result,
          invoked, via, active_at_start, fired_before_publish, trace>>

NewChannel == [value |-> NoneV, version |-> 0, closed |-> FALSE]

\* ToolCallRuntime::new on a session whose tool result cache is session0.
Constructed(session0) ==
    /\ \E cfg \in Configs : /\ parallel_tools = cfg.parallel
                            /\ cache_enabled = cfg.enabled
    /\ now = 0
    /\ session = session0
    /\ turn_result_cache = EmptyMap
    /\ turn_inflight_cache = EmptyMap
    /\ channel = [c \in Calls |-> NewChannel]
    /\ parallel_execution = [readers |-> {}, writer |-> {}]
    /\ lock = [turn_result_cache |-> {}, turn_inflight_cache |-> {}, state |-> {}]
    /\ pc = [c \in Calls |-> "idle"]
    /\ call = [c \in Calls |-> NoCall]
    /\ cache_key = [c \in Calls |-> <<>>]
    /\ cancellation_token = [c \in Calls |-> FALSE]
    /\ shared_result_sender = [c \in Calls |-> FALSE]
    /\ waiting_on_existing = [c \in Calls |-> {}]
    /\ cached = [c \in Calls |-> NoneV]
    /\ cancelled = [c \in Calls |-> FALSE]
    /\ dispatched = [c \in Calls |-> NoneV]
    /\ result = [c \in Calls |-> NoneV]
    /\ invoked = {}
    /\ via = [c \in Calls |-> "none"]
    /\ active_at_start = [c \in Calls |-> {}]
    /\ fired_before_publish = [c \in Calls |-> FALSE]
    /\ trace = <<>>

\* The first turn of a session.
Init == Constructed(EmptyToolCache)

\* ------------------------------------------------------- the spawned task
\* pc[c] names the await the task of call c stands at (or will reach next
\* without yielding).  At a stage that takes a Mutex the task either waits for
\* the lock or, once c is in the lock's holder set, runs the critical section.

supports_parallel(c) == call[c].tool_name \in parallel_tools

supports_turn_cache(c) == tool_supports_turn_cache(call[c].tool_name)

supports_session_cache(c) == tool_supports_session_cache(call[c].tool_name)

\* The Mutex each stage locks.
LockOf(stage) ==
    CASE stage \in {"turn_get", "promote", "follow_turn_get", "store_turn"} ->
            "turn_result_cache"
      [] stage \in {"session_get", "store_session"} -> "state"
      [] stage \in {"join", "remove"} -> "turn_inflight_cache"

LockStages == {"turn_get", "session_get", "promote", "join", "follow_turn_get",
               "store_turn", "store_session", "remove"}

Holds(c) == \E l \in DOMAIN lock : c \in lock[l]

\* A variant of Release in which the MutexGuard is kept past its statement.
LockKept(l) == lock

Release(l) == [lock EXCEPT ![l] = {}]

\* Where the task goes when the turn cache has no entry (lines 119-120).
AfterTurnMiss(c) ==
    IF tool_supports_session_cache(call[c].tool_name) /\ cache_enabled
    THEN "session_get"
    ELSE IF tool_supports_turn_cache(call[c].tool_name) THEN "join" ELSE "gate"

\* Where it goes when the session cache has none either (line 139).
AfterSessionMiss(c) ==
    IF tool_supports_turn_cache(call[c].tool_name) THEN "join" ELSE "gate"

\* The task returns r from the line named by how.
Return(c, r, how) ==
    /\ result' = [result EXCEPT ![c] = Some(r)]
    /\ via' = [via EXCEPT ![c] = how]
    /\ pc' = [pc EXCEPT ![c] = "done"]

\* handle_tool_call is called: the locals of lines 81-94 and the spawn.
\* Calls are issued in the order of their ids.
Start(c, t) ==
    /\ pc[c] = "idle"
    /\ \A d \in Calls : d < c => pc[d] # "idle"
    /\ LET cl == [tool_name |-> t.tool_name, call_id |-> c, payload |-> t.payload] IN
        /\ call' = [call EXCEPT ![c] = cl]
        /\ cache_key' = [cache_key EXCEPT ![c] = tool_call_cache_key(cl)]
        /\ pc' = [pc EXCEPT ![c] =
                    IF tool_supports_turn_cache(t.tool_name) THEN "turn_get"
                    ELSE IF tool_supports_session_cache(t.tool_name) /\ cache_enabled
                         THEN "session_get" ELSE "gate"]
    /\ active_at_start' = [active_at_start EXCEPT ![c] =
                              {d \in Calls : pc[d] \notin {"idle", "done", "dropped"}}]
    /\ UNCHANGED <<parallel_tools, cache_enabled, now, session, turn_result_cache,
                   turn_inflight_cache, channel, parallel_execution, lock,
                   cancellation_token, shared_result_sender, waiting_on_existing,
                   cached, cancelled, dispatched, result, invoked, via,
                   fired_before_publish, trace>>

\* Mutex::lock().await resolves: the lock was free.
Acquire(c) ==
    /\ pc[c] \in LockStages
    /\ lock[LockOf(pc[c])] = {}
    /\ lock' = [lock EXCEPT ![LockOf(pc[c])] = {c}]
    /\ UNCHANGED <<parallel_tools, cache_enabled, now, session, turn_result_cache,
                   turn_inflight_cache, channel, parallel_execution, pc, call,
                   cache_key, cancellation_token, shared_result_sender,
                   waiting_on_existing, cached, cancelled, dispatched, result,
                   invoked, via,
                   active_at_start, fired_before_publish, trace>>

\* Lines 109-118: the turn cache is read.
TurnGet(c) ==
    /\ pc[c] = "turn_get"
    /\ c \in lock.turn_result_cache
    /\ lock' = Release("turn_result_cache")
    /\ IF cache_key[c] \in DOMAIN turn_result_cache
       THEN Return(c, Ok(remap_response_call_id(turn_result_cache[cache_key[c]],
                                                 call[c].call_id)),
                   "turn_cache")
       ELSE /\ pc' = [pc EXCEPT ![c] = AfterTurnMiss(c)]
            /\ UNCHANGED <<result, via>>
    /\ UNCHANGED <<parallel_tools, cache_enabled, now, session, turn_result_cache,
                   turn_inflight_cache, channel, parallel_execution, call,
                   cache_key, cancellation_token, shared_result_sender,
                   waiting_on_existing, cached, cancelled, dispatched, invoked,
                   active_at_start, fired_before_publish, trace>>

\* Lines 119-124: session.get_cached_tool_result under the session state lock.
SessionGet(c) ==
    /\ pc[c] = "session_get"
    /\ c \in lock.state
    /\ lock' = Release("state")
    /\ LET got == get_cached_tool_result(session, cache_key[c],
                                         TOOL_RESULT_CACHE_TTL_SECS, now) IN
        /\ session' = got.st
        /\ cached' = [cached EXCEPT ![c] = got.ret]
        /\ IF got.ret.some
           THEN IF supports_turn_cache(c)
                THEN /\ pc' = [pc EXCEPT ![c] = "promote"]
                     /\ UNCHANGED <<result, via>>
                ELSE Return(c, Ok(remap_response_call_id(got.ret.v, call[c].call_id)),
                            "session_cache")
           ELSE /\ pc' = [pc EXCEPT ![c] = AfterSessionMiss(c)]
                /\ UNCHANGED <<result, via>>
    /\ UNCHANGED <<parallel_tools, cache_enabled, now, turn_result_cache,
                   turn_inflight_cache, channel, parallel_execution, call,
                   cache_key, cancellation_token, shared_result_sender,
                   waiting_on_existing, cancelled, dispatched, invoked,
                   active_at_start, fired_before_publish, trace>>

\* A variant of Promote that returns the hit without copying it.
PromoteSkipped(c) ==
    /\ pc[c] = "promote"
    /\ c \in lock.turn_result_cache
    /\ lock' = Release("turn_result_cache")
    /\ turn_result_cache' = turn_result_cache
    /\ Return(c, Ok(remap_response_call_id(cached[c].v, call[c].call_id)),
              "session_cache")
    /\ UNCHANGED <<parallel_tools, cache_enabled, now, session,
                   turn_inflight_cache, channel, parallel_execution, call,
                   cache_key, cancellation_token, shared_result_sender,
                   waiting_on_existing, cached, cancelled, dispatched, invoked,
                   active_at_start, fired_before_publish, trace>>

\* Lines 130-136: the session cache's hit is copied into the turn cache.
Promote(c) ==
    /\ pc[c] = "promote"
    /\ c \in lock.turn_result_cache
    /\ lock' = Release("turn_result_cache")
    /\ turn_result_cache' = Insert(turn_result_cache, cache_key[c], cached[c].v)
    /\ Return(c, Ok(remap_response_call_id(cached[c].v, call[c].call_id)),
              "session_cache")
    /\ UNCHANGED <<parallel_tools, cache_enabled, now, session,
                   turn_inflight_cache, channel, parallel_execution, call,
                   cache_key, cancellation_token, shared_result_sender,
                   waiting_on_existing, cached, cancelled, dispatched, invoked,
                   active_at_start, fired_before_publish, trace>>

\* Lines 145-151, inside the registry's lock: the receiver found under the
\* key, or a fresh channel whose receiver is inserted and whose sender is kept.
\* A variant of join_or_lead that inserts without looking the key up.
insert_and_lead(inflight, key, c) ==
    [inflight |-> Insert(inflight, key, c), existing |-> {}, sender |-> TRUE]

join_or_lead(inflight, key, c) ==
    IF key \in DOMAIN inflight
    THEN [inflight |-> inflight, existing |-> {inflight[key]}, sender |-> FALSE]
    ELSE [inflight |-> Insert(inflight, key, c), existing |-> {}, sender |-> TRUE]

\* Lines 139-152.
JoinInflight(c) ==
    /\ pc[c] = "join"
    /\ c \in lock.turn_inflight_cache
    /\ lock' = Release("turn_inflight_cache")
    /\ LET j == join_or_lead(turn_inflight_cache, cache_key[c], c) IN
        /\ turn_inflight_cache' = j.inflight
        /\ waiting_on_existing' = [waiting_on_existing EXCEPT ![c] = j.existing]
        /\ shared_result_sender' = [shared_result_sender EXCEPT ![c] = j.sender]
        /\ channel' = IF j.sender THEN [channel EXCEPT ![c] = NewChannel] ELSE channel
        /\ pc' = [pc EXCEPT ![c] = IF j.existing # {} THEN "follow" ELSE "gate"]
    /\ UNCHANGED <<parallel_tools, cache_enabled, now, session, turn_result_cache,
                   parallel_execution, call, cache_key, cancellation_token,
                   cached, cancelled, dispatched, result, invoked, via,
                   active_at_start, fired_before_publish, trace>>

\* The channel call c waits on.
Awaited(c) == CHOOSE ch \in waiting_on_existing[c] : TRUE

\* receiver.changed() is ready: a value was sent since the receiver in the
\* registry was created, or the sender is gone.
\* A variant of Changed that is ready on a sent value only, not on a sender
\* that is gone.
ChangedBySend(ch) == channel[ch].version # 0

\* A variant of Changed that is ready only once the sender is gone, as for a
\* receiver that had already seen the value sent.
ChangedByClose(ch) == channel[ch].closed

Changed(ch) == channel[ch].version # 0 \/ channel[ch].closed

\* A variant of FollowCancelled in which the follower, giving up, cancels the
\* token of the leader it waited for.
FollowCancelledWithLeader(c) ==
    /\ pc[c] = "follow"
    /\ cancellation_token[c]
    /\ Return(c, Ok(aborted_response(call[c])), "aborted_following")
    /\ cancellation_token' = [cancellation_token EXCEPT ![Awaited(c)] = TRUE]
    /\ UNCHANGED <<parallel_tools, cache_enabled, now, session, turn_result_cache,
                   turn_inflight_cache, channel, parallel_execution, lock, call,
                   cache_key, shared_result_sender,
                   waiting_on_existing, cached, cancelled, dispatched, invoked,
                   active_at_start, fired_before_publish, trace>>

\* Lines 161-166: the cancelled branch of the follower's select!.
FollowCancelled(c) ==
    /\ pc[c] = "follow"
    /\ cancellation_token[c]
    /\ Return(c, Ok(aborted_response(call[c])), "aborted_following")
    /\ UNCHANGED <<parallel_tools, cache_enabled, now, session, turn_result_cache,
                   turn_inflight_cache, channel, parallel_execution, lock, call,
                   cache_key, cancellation_token, shared_result_sender,
                   waiting_on_existing, cached, cancelled, dispatched, invoked,
                   active_at_start, fired_before_publish, trace>>

\* Lines 167-172: the changed branch, then the borrow of the channel's value.
FollowChanged(c) ==
    /\ pc[c] = "follow"
    /\ Changed(Awaited(c))
    /\ IF channel[Awaited(c)].value.some
       THEN Return(c, Ok(remap_response_call_id(channel[Awaited(c)].value.v,
                                                 call[c].call_id)),
                   "inflight")
       ELSE /\ pc' = [pc EXCEPT ![c] = "follow_turn_get"]
            /\ UNCHANGED <<result, via>>
    /\ UNCHANGED <<parallel_tools, cache_enabled, now, session, turn_result_cache,
                   turn_inflight_cache, channel, parallel_execution, lock, call,
                   cache_key, cancellation_token, shared_result_sender,
                   waiting_on_existing, cached, cancelled, dispatched, invoked,
                   active_at_start, fired_before_publish, trace>>

\* A variant of FollowTurnGet that returns the cached entry under the call_id
\* it was stored with.
FollowTurnGetUnmapped(c) ==
    /\ pc[c] = "follow_turn_get"
    /\ c \in lock.turn_result_cache
    /\ lock' = Release("turn_result_cache")
    /\ IF cache_key[c] \in DOMAIN turn_result_cache
       THEN Return(c, Ok(turn_result_cache[cache_key[c]]),
                   "turn_cache_after_wait")
       ELSE /\ pc' = [pc EXCEPT ![c] = "gate"]
            /\ UNCHANGED <<result, via>>
    /\ UNCHANGED <<parallel_tools, cache_enabled, now, session, turn_result_cache,
                   turn_inflight_cache, channel, parallel_execution, call,
                   cache_key, cancellation_token, shared_result_sender,
                   waiting_on_existing, cached, cancelled, dispatched, invoked,
                   active_at_start, fired_before_publish, trace>>

\* Lines 173-177: the follower reads the turn cache again.
FollowTurnGet(c) ==
    /\ pc[c] = "follow_turn_get"
    /\ c \in lock.turn_result_cache
    /\ lock' = Release("turn_result_cache")
    /\ IF cache_key[c] \in DOMAIN turn_result_cache
       THEN Return(c, Ok(remap_response_call_id(turn_result_cache[cache_key[c]],
                                                 call[c].call_id)),
                   "turn_cache_after_wait")
       ELSE /\ pc' = [pc EXCEPT ![c] = "gate"]
            /\ UNCHANGED <<result, via>>
    /\ UNCHANGED <<parallel_tools, cache_enabled, now, session, turn_result_cache,
                   turn_inflight_cache, channel, parallel_execution, call,
                   cache_key, cancellation_token, shared_result_sender,
                   waiting_on_existing, cached, cancelled, dispatched, invoked,
                   active_at_start, fired_before_publish, trace>>

\* ------------------------------------------------- the execution gate
\* parallel_execution is a tokio RwLock<()>: read() for a tool that supports
\* parallel calls, write() for every other tool (lines 190-194).

\* A variant of GuardAvailable in which every call takes the shared side.
SharedGuardAvailable(gate, parallel) == gate.writer = {}

GuardAvailable(gate, parallel) ==
    IF parallel THEN gate.writer = {}
    ELSE gate.writer = {} /\ gate.readers = {}

AcquireGuard(gate, c, parallel) ==
    IF parallel THEN [gate EXCEPT !.readers = @ \cup {c}]
    ELSE [gate EXCEPT !.writer = {c}]

\* A variant of ReleaseGuard in which the guard outlives its holder.
GuardKept(gate, c) == gate

\* _guard is dropped.
ReleaseGuard(gate, c) ==
    [readers |-> gate.readers \ {c}, writer |-> gate.writer \ {c}]

\* The async block of lines 189-228 has run to its end: _guard is dropped and
\* the select! yields what the router returned.
BlockEnds(c, res) ==
    /\ parallel_execution' = ReleaseGuard(parallel_execution, c)
    /\ result' = [result EXCEPT ![c] = Some(res)]
    /\ via' = [via EXCEPT ![c] = "router"]
    /\ pc' = [pc EXCEPT ![c] = IF shared_result_sender[c] THEN "publish" ELSE "done"]

\* Lines 190-205: the guard is granted and router.dispatch_tool_call is called.
GateAcquire(c) ==
    /\ pc[c] = "gate"
    /\ GuardAvailable(parallel_execution, supports_parallel(c))
    /\ parallel_execution' = AcquireGuard(parallel_execution, c, supports_parallel(c))
    /\ invoked' = invoked \cup {c}
    /\ pc' = [pc EXCEPT ![c] = "router"]
    /\ UNCHANGED <<parallel_tools, cache_enabled, now, session, turn_result_cache,
                   turn_inflight_cache, channel, lock, call, cache_key,
                   cancellation_token, shared_result_sender, waiting_on_existing,
                   cached, cancelled, dispatched, result, via,
                   active_at_start, fired_before_publish, trace>>

\* Lines 196-210: the router returns; the response is classified.
RouterReturn(c, outcome) ==
    /\ pc[c] = "router"
    /\ dispatched' = [dispatched EXCEPT ![c] = Some(outcome)]
    /\ IF outcome.ok /\ should_cache_tool_response(outcome.v)
          /\ (supports_turn_cache(c) \/ (supports_session_cache(c) /\ cache_enabled))
       THEN /\ pc' = [pc EXCEPT ![c] =
                        IF supports_turn_cache(c) THEN "store_turn" ELSE "store_session"]
            /\ UNCHANGED <<parallel_execution, result, via>>
       ELSE BlockEnds(c, outcome)
    /\ UNCHANGED <<parallel_tools, cache_enabled, now, session, turn_result_cache,
                   turn_inflight_cache, channel, lock, call, cache_key,
                   cancellation_token, shared_result_sender, waiting_on_existing,
                   cached, cancelled, invoked,
                   active_at_start, fired_before_publish, trace>>

\* A variant of StoreTurn that leaves the turn cache as it is.
StoreTurnSkipped(c) ==
    /\ pc[c] = "store_turn"
    /\ c \in lock.turn_result_cache
    /\ lock' = Release("turn_result_cache")
    /\ turn_result_cache' = turn_result_cache
    /\ IF supports_session_cache(c) /\ cache_enabled
       THEN /\ pc' = [pc EXCEPT ![c] = "store_session"]
            /\ UNCHANGED <<parallel_execution, result, via>>
       ELSE BlockEnds(c, dispatched[c].v)
    /\ UNCHANGED <<parallel_tools, cache_enabled, now, session,
                   turn_inflight_cache, channel, call, cache_key,
                   cancellation_token, shared_result_sender, waiting_on_existing,
                   cached, cancelled, dispatched, invoked,
                   active_at_start, fired_before_publish, trace>>

\* Lines 210-215: the response is inserted into the turn cache.
StoreTurn(c) ==
    /\ pc[c] = "store_turn"
    /\ c \in lock.turn_result_cache
    /\ lock' = Release("turn_result_cache")
    /\ turn_result_cache' = Insert(turn_result_cache, cache_key[c], dispatched[c].v.v)
    /\ IF supports_session_cache(c) /\ cache_enabled
       THEN /\ pc' = [pc EXCEPT ![c] = "store_session"]
            /\ UNCHANGED <<parallel_execution, result, via>>
       ELSE BlockEnds(c, dispatched[c].v)
    /\ UNCHANGED <<parallel_tools, cache_enabled, now, session,
                   turn_inflight_cache, channel, call, cache_key,
                   cancellation_token, shared_result_sender, waiting_on_existing,
                   cached, cancelled, dispatched, invoked,
                   active_at_start, fired_before_publish, trace>>

\* Lines 216-224: session.put_cached_tool_result under the session state lock.
StoreSession(c) ==
    /\ pc[c] = "store_session"
    /\ c \in lock.state
    /\ lock' = Release("state")
    /\ session' = put_cached_tool_result(session, cache_key[c], dispatched[c].v.v,
                                         TOOL_RESULT_CACHE_MAX_ENTRIES, now)
    /\ BlockEnds(c, dispatched[c].v)
    /\ UNCHANGED <<parallel_tools, cache_enabled, now, turn_result_cache,
                   turn_inflight_cache, channel, call, cache_key,
                   cancellation_token, shared_result_sender, waiting_on_existing,
                   cached, cancelled, dispatched, invoked,
                   active_at_start, fired_before_publish, trace>>

\* A variant of DispatchAwaits in which the guard is awaited outside the
\* select!.
DispatchAwaitsPastGate == {"router", "store_turn", "store_session"}

\* The awaits inside the async block of lines 189-228.
DispatchAwaits == {"gate", "router", "store_turn", "store_session"}

\* Lines 183-188: the cancelled branch of the dispatching select! wins; the
\* async block is dropped where it waits, and its guard with it.
DispatchCancelled(c) ==
    /\ pc[c] \in DispatchAwaits
    /\ ~Holds(c)
    /\ cancellation_token[c]
    /\ cancelled' = [cancelled EXCEPT ![c] = TRUE]
    /\ parallel_execution' = ReleaseGuard(parallel_execution, c)
    /\ result' = [result EXCEPT ![c] = Some(Ok(aborted_response(call[c])))]
    /\ via' = [via EXCEPT ![c] = "aborted_dispatching"]
    /\ pc' = [pc EXCEPT ![c] = IF shared_result_sender[c] THEN "publish" ELSE "done"]
    /\ UNCHANGED <<parallel_tools, cache_enabled, now, session, turn_result_cache,
                   turn_inflight_cache, channel, lock, call, cache_key,
                   cancellation_token, shared_result_sender, waiting_on_existing,
                   cached, dispatched, invoked,
                   active_at_start, fired_before_publish, trace>>

\* A variant of Shareable that does not look at the cancelled flag.
ShareableWhenCancelled(was_cancelled, res) ==
    IF res.ok /\ should_cache_tool_response(res.v) THEN Some(res.v) ELSE NoneV

\* Lines 232-238: what the leader offers its followers.
Shareable(was_cancelled, res) ==
    IF was_cancelled THEN NoneV
    ELSE IF res.ok /\ should_cache_tool_response(res.v) THEN Some(res.v)
    ELSE NoneV

\* Line 239: sender.send(shareable).
Publish(c) ==
    /\ pc[c] = "publish"
    /\ channel' = [channel EXCEPT ![c] =
                      [value |-> Shareable(cancelled[c], result[c].v),
                       version |-> @.version + 1,
                       closed |-> FALSE]]
    /\ pc' = [pc EXCEPT ![c] = "remove"]
    /\ UNCHANGED <<parallel_tools, cache_enabled, now, session, turn_result_cache,
                   turn_inflight_cache, parallel_execution, lock, call, cache_key,
                   cancellation_token, shared_result_sender, waiting_on_existing,
                   cached, cancelled, dispatched, result, invoked, via,
                   active_at_start, fired_before_publish, trace>>

\* Lines 240-243: the key is removed from the registry, the sender is dropped
\* and the task returns.
RemoveInflight(c) ==
    /\ pc[c] = "remove"
    /\ c \in lock.turn_inflight_cache
    /\ lock' = Release("turn_inflight_cache")
    /\ turn_inflight_cache' = Remove(turn_inflight_cache, cache_key[c])
    /\ shared_result_sender' = [shared_result_sender EXCEPT ![c] = FALSE]
    /\ channel' = [channel EXCEPT ![c].closed = TRUE]
    /\ pc' = [pc EXCEPT ![c] = "done"]
    /\ UNCHANGED <<parallel_tools, cache_enabled, now, session, turn_result_cache,
                   parallel_execution, call, cache_key, cancellation_token,
                   waiting_on_existing, cached, cancelled, dispatched, result,
                   invoked, via,
                   active_at_start, fired_before_publish, trace>>

\* ------------------------------------------ the future handed to the caller
\* Lines 246-255: the caller awaits the task's JoinHandle and maps what the
\* task returned to Result<ResponseInputItem, CodexErr>.

CodexErrFatal(message) == [kind |-> "CodexErr::Fatal", message |-> message]

\* FunctionCallError's Display for an error that is not Fatal: the message it
\* carries.
error_to_string(e) == e.message

\* A variant of handle_await that passes a non-fatal error on as it is.
handle_await_unwrapped(joined) ==
    IF ~joined.ok
    THEN Err(CodexErrFatal(<<"tool task failed to receive: ">> \o joined.v))
    ELSE IF joined.v.ok THEN Ok(joined.v.v)
    ELSE IF joined.v.v.kind = "Fatal" THEN Err(CodexErrFatal(joined.v.v.message))
    ELSE Err(joined.v.v)

\* joined is what handle.await yields: Ok(the task's result) or Err(JoinError).
handle_await(joined) ==
    IF ~joined.ok
    THEN Err(CodexErrFatal(<<"tool task failed to receive: ">> \o joined.v))
    ELSE IF joined.v.ok THEN Ok(joined.v.v)
    ELSE IF joined.v.v.kind = "Fatal" THEN Err(CodexErrFatal(joined.v.v.message))
    ELSE Err(CodexErrFatal(error_to_string(joined.v.v)))

\* What the caller of handle_tool_call gets once the task of call c returned.
Returned(c) == handle_await(Ok(result[c].v))

\* ---------------------------------------------------------- environment

\* The caller cancels the call's CancellationToken.
Cancel(c) ==
    /\ pc[c] \notin {"idle", "done", "dropped"}
    /\ ~cancellation_token[c]
    /\ cancellation_token' = [cancellation_token EXCEPT ![c] = TRUE]
    /\ fired_before_publish' = [fired_before_publish EXCEPT ![c] =
                                   pc[c] = "follow" /\ ~Changed(Awaited(c))]
    /\ UNCHANGED <<parallel_tools, cache_enabled, now, session, turn_result_cache,
                   turn_inflight_cache, channel, parallel_execution, lock, pc,
                   call, cache_key, shared_result_sender, waiting_on_existing,
                   cached, cancelled, dispatched, result, invoked, via,
                   active_at_start, trace>>

\* The awaits of the spawned task.
TaskAwaits == LockStages \cup {"follow", "gate", "router"}

\* Lines 104-105: the future handle_tool_call returned is dropped, and with it
\* the AbortOnDropHandle: the task is aborted at the await it stands at.  Its
\* locals are dropped (the guard, the sender, what it had computed); no further
\* line of it runs.
DropHandle(c) ==
    /\ pc[c] \in TaskAwaits
    /\ ~Holds(c)
    /\ pc' = [pc EXCEPT ![c] = "dropped"]
    /\ parallel_execution' = ReleaseGuard(parallel_execution, c)
    /\ shared_result_sender' = [shared_result_sender EXCEPT ![c] = FALSE]
    /\ channel' = IF shared_result_sender[c]
                  THEN [channel EXCEPT ![c].closed = TRUE] ELSE channel
    /\ cached' = [cached EXCEPT ![c] = NoneV]
    /\ cancelled' = [cancelled EXCEPT ![c] = FALSE]
    /\ dispatched' = [dispatched EXCEPT ![c] = NoneV]
    /\ result' = [result EXCEPT ![c] = NoneV]
    /\ via' = [via EXCEPT ![c] = "dropped"]
    /\ UNCHANGED <<parallel_tools, cache_enabled, now, session, turn_result_cache,
                   turn_inflight_cache, lock, call, cache_key, cancellation_token,
                   waiting_on_existing, invoked, active_at_start,
                   fired_before_publish, trace>>

\* A second passes.  The clock is read only against the stored_at of cached
\* entries, so it is advanced only while the session cache holds one.
Tick ==
    /\ now < MaxClock
    /\ session.order # <<>>
    /\ now' = now + 1
    /\ UNCHANGED <<parallel_tools, cache_enabled, session, turn_result_cache,
                   turn_inflight_cache, channel, parallel_execution, lock, pc,
                   call, cache_key, cancellation_token, shared_result_sender,
                   waiting_on_existing, cached, cancelled, dispatched, result,
                   invoked, via,
                   active_at_start, fired_before_publish, trace>>

\* --------------------------------------- the session cache, called directly
\* SessionState's two methods called in any order with any arguments, as the
\* tests of session.rs call them.

\* Number of calls made on the cache.
MaxOps == 4
\* Largest max_entries passed to put_cached_tool_result.
MaxEntries == 2
\* Largest max_age passed to get_cached_tool_result, in seconds.
MaxAge == 2

\* The keys and the responses the calls use.
CacheKeys == {<<"a">>, <<"b">>, <<"c">>}

CacheResponses == {FunctionCallOutput(1, <<"A">>, NoneV),
                   FunctionCallOutput(2, <<"B">>, NoneV)}

\* What trace records of a call: its arguments, the clock, what it returned
\* and the keys it removed.
Logged(op, key, arg, response, before, after) ==
    [op |-> op, key |-> key, arg |-> arg, at |-> now, response |-> response,
     removed |-> DOMAIN before.cache \ DOMAIN after.cache]

\* state.put_cached_tool_result(key, response, max_entries)
PutCachedToolResult(key, response, max_entries) ==
    /\ Len(trace) < MaxOps
    /\ session' = put_cached_tool_result(session, key, response, max_entries, now)
    /\ trace' = Append(trace, Logged("put", key, max_entries, Some(response),
                                     session, session'))
    /\ UNCHANGED <<parallel_tools, cache_enabled, now, turn_result_cache,
                   turn_inflight_cache, channel, parallel_execution, lock, pc,
                   call, cache_key, cancellation_token, shared_result_sender,
                   waiting_on_existing, cached, cancelled, dispatched, result,
                   invoked, via, active_at_start, fired_before_publish>>

\* state.get_cached_tool_result(key, max_age)
GetCachedToolResult(key, max_age) ==
    /\ Len(trace) < MaxOps
    /\ LET got == get_cached_tool_result(session, key, max_age, now) IN
        /\ session' = got.st
        /\ trace' = Append(trace, Logged("get", key, max_age, got.ret,
                                         session, got.st))
    /\ UNCHANGED <<parallel_tools, cache_enabled, now, turn_result_cache,
                   turn_inflight_cache, channel, parallel_execution, lock, pc,
                   call, cache_key, cancellation_token, shared_result_sender,
                   waiting_on_existing, cached, cancelled, dispatched, result,
                   invoked, via, active_at_start, fired_before_publish>>

\* ------------------------------------------------------- specifications

\* The steps the task of call c takes by itself.
Task(c) ==
    \/ Acquire(c)
    \/ TurnGet(c)
    \/ SessionGet(c)
    \/ Promote(c)
    \/ JoinInflight(c)
    \/ FollowCancelled(c)
    \/ FollowChanged(c)
    \/ FollowTurnGet(c)
    \/ GateAcquire(c)
    \/ StoreTurn(c)
    \/ StoreSession(c)
    \/ DispatchCancelled(c)
    \/ Publish(c)
    \/ RemoveInflight(c)

Next ==
    \/ \E c \in Calls, t \in Menu : Start(c, t)
    \/ \E c \in Calls : Acquire(c)
    \/ \E c \in Calls : TurnGet(c)
    \/ \E c \in Calls : SessionGet(c)
    \/ \E c \in Calls : Promote(c)
    \/ \E c \in Calls : JoinInflight(c)
    \/ \E c \in Calls : FollowCancelled(c)
    \/ \E c \in Calls : FollowChanged(c)
    \/ \E c \in Calls : FollowTurnGet(c)
    \/ \E c \in Calls : GateAcquire(c)
    \/ \E c \in Calls : \E outcome \in RouterOutcomes(c) : RouterReturn(c, outcome)
    \/ \E c \in Calls : StoreTurn(c)
    \/ \E c \in Calls : StoreSession(c)
    \/ \E c \in Calls : DispatchCancelled(c)
    \/ \E c \in Calls : Publish(c)
    \/ \E c \in Calls : RemoveInflight(c)
    \/ \E c \in Calls : Cancel(c)
    \/ \E c \in Calls : DropHandle(c)
    \/ Tick

Spec == Init /\ [][Next]_vars

\* What an earlier turn of the session left in its cache: the response to a
\* weather call of that turn, stored under the key of the menu's weather call.
EarlierResponse == FunctionCallOutput(0, Body(0), NoneV)

EarlierKey ==
    tool_call_cache_key([tool_name |-> <<"weather">>, call_id |-> 0,
                         payload |-> [variant |-> "Function", arguments |-> JsonA1]])

\* A later turn: a new ToolCallRuntime on the same session.
LaterTurnInit ==
    Constructed(put_cached_tool_result(EmptyToolCache, EarlierKey, EarlierResponse,
                                       TOOL_RESULT_CACHE_MAX_ENTRIES, 0))

LaterTurnSpec == LaterTurnInit /\ [][Next]_vars

\* The runtime polls every task that can make progress.
FairSpec == Spec /\ \A c \in Calls : WF_vars(Task(c))

\* One response of the router for each way the task goes on from line 207: a
\* cache-eligible response, one that is not, and an error.
EndingOutcomes(c) ==
    {Ok(FunctionCallOutput(c, Body(c), NoneV)),
     Ok(Message(Body(c))),
     Err(Fatal(Body(c)))}

EndingNext ==
    \/ \E c \in Calls, t \in Menu : Start(c, t)
    \/ \E c \in Calls : Acquire(c)
    \/ \E c \in Calls : TurnGet(c)
    \/ \E c \in Calls : SessionGet(c)
    \/ \E c \in Calls : Promote(c)
    \/ \E c \in Calls : JoinInflight(c)
    \/ \E c \in Calls : FollowCancelled(c)
    \/ \E c \in Calls : FollowChanged(c)
    \/ \E c \in Calls : FollowTurnGet(c)
    \/ \E c \in Calls : GateAcquire(c)
    \/ \E c \in Calls : \E outcome \in EndingOutcomes(c) : RouterReturn(c, outcome)
    \/ \E c \in Calls : StoreTurn(c)
    \/ \E c \in Calls : StoreSession(c)
    \/ \E c \in Calls : DispatchCancelled(c)
    \/ \E c \in Calls : Publish(c)
    \/ \E c \in Calls : RemoveInflight(c)
    \/ \E c \in Calls : Cancel(c)
    \/ \E c \in Calls : DropHandle(c)
    \/ Tick

\* The runtime polls every task that can make progress, and every invocation
\* of the router returns.
EndingSpec ==
    /\ Init
    /\ [][EndingNext]_vars
    /\ \A c \in Calls :
          WF_vars(Task(c) \/ \E outcome \in EndingOutcomes(c) : RouterReturn(c, outcome))

\* A slot with more than one follower: one call more than in Spec, all for
\* read_file (turn-cacheable, outside the session cache's list) with one input,
\* hence one cache key.
SlotCalls == 1..(NumCalls + 1)

SlotMenu == {t \in Menu : t.tool_name = <<"read_file">>}

SlotOutcomes(c) ==
    {Ok(CustomToolCallOutput(c, Body(c))),
     Ok(Message(Body(c))),
     Err(RespondToModel(Body(c)))}

SlotInit ==
    /\ \E cfg \in Configs : /\ parallel_tools = cfg.parallel
                            /\ cache_enabled = cfg.enabled
    /\ now = 0
    /\ session = EmptyToolCache
    /\ turn_result_cache = EmptyMap
    /\ turn_inflight_cache = EmptyMap
    /\ channel = [c \in SlotCalls |-> NewChannel]
    /\ parallel_execution = [readers |-> {}, writer |-> {}]
    /\ lock = [turn_result_cache |-> {}, turn_inflight_cache |-> {}, state |-> {}]
    /\ pc = [c \in SlotCalls |-> "idle"]
    /\ call = [c \in SlotCalls |-> NoCall]
    /\ cache_key = [c \in SlotCalls |-> <<>>]
    /\ cancellation_token = [c \in SlotCalls |-> FALSE]
    /\ shared_result_sender = [c \in SlotCalls |-> FALSE]
    /\ waiting_on_existing = [c \in SlotCalls |-> {}]
    /\ cached = [c \in SlotCalls |-> NoneV]
    /\ cancelled = [c \in SlotCalls |-> FALSE]
    /\ dispatched = [c \in SlotCalls |-> NoneV]
    /\ result = [c \in SlotCalls |-> NoneV]
    /\ invoked = {}
    /\ via = [c \in SlotCalls |-> "none"]
    /\ active_at_start = [c \in SlotCalls |-> {}]
    /\ fired_before_publish = [c \in SlotCalls |-> FALSE]
    /\ trace = <<>>

SlotNext ==
    \/ \E c \in SlotCalls, t \in SlotMenu : Start(c, t)
    \/ \E c \in SlotCalls : Acquire(c)
    \/ \E c \in SlotCalls : TurnGet(c)
    \/ \E c \in SlotCalls : JoinInflight(c)
    \/ \E c \in SlotCalls : FollowCancelled(c)
    \/ \E c \in SlotCalls : FollowChanged(c)
    \/ \E c \in SlotCalls : FollowTurnGet(c)
    \/ \E c \in SlotCalls : GateAcquire(c)
    \/ \E c \in SlotCalls : \E outcome \in SlotOutcomes(c) : RouterReturn(c, outcome)
    \/ \E c \in SlotCalls : StoreTurn(c)
    \/ \E c \in SlotCalls : DispatchCancelled(c)
    \/ \E c \in SlotCalls : Publish(c)
    \/ \E c \in SlotCalls : RemoveInflight(c)
    \/ \E c \in SlotCalls : Cancel(c)
    \/ \E c \in SlotCalls : DropHandle(c)

SlotSpec == SlotInit /\ [][SlotNext]_vars

\* The arguments of the calls whose keys are compared: objects whose members
\* are permuted, at the top and nested, with and without whitespace, and
\* arrays whose elements are permuted.
KeyArguments ==
    {<<"{", "\"a\"", ":", "1", ",", "\"b\"", ":", "2", "}">>,
     <<"{", "\"b\"", ":", "2", ",", "\"a\"", ":", "1", "}">>,
     <<"{", WS, "\"b\"", ":", WS, "2", ",", "\"\\u0061\"", ":", "1", WS, "}">>,
     <<"{", "\"a\"", ":", "{", "\"a\"", ":", "1", ",", "\"b\"", ":", "2", "}", ",",
            "\"b\"", ":", "[", "1", ",", "2", "]", "}">>,
     <<"{", "\"b\"", ":", "[", "1", ",", "2", "]", ",",
            "\"a\"", ":", "{", "\"b\"", ":", "2", ",", "\"a\"", ":", "1", "}", "}">>,
     <<"{", "\"b\"", ":", "[", "2", ",", "1", "]", ",",
            "\"a\"", ":", "{", "\"b\"", ":", "2", ",", "\"a\"", ":", "1", "}", "}">>,
     <<"[", "1", ",", "2", "]">>,
     <<"[", "2", ",", "1", "]">>,
     <<"[", "{", "\"a\"", ":", "1", ",", "\"b\"", ":", "2", "}", "]">>,
     <<"[", "{", "\"b\"", ":", "2", ",", "\"a\"", ":", "1", "}", "]">>}

KeyMenu ==
    {[tool_name |-> <<"weather">>,
      payload |-> [variant |-> "Function", arguments |-> a]] : a \in KeyArguments}
    \cup
    {[tool_name |-> <<"read_mcp_resource">>,
      payload |-> [variant |-> "Mcp", server |-> <<"srv">>, tool |-> <<"read">>,
                   raw_arguments |-> a]] : a \in KeyArguments}

\* tool_call_cache_key alone: calls are issued and their keys computed.
KeyInit == Init /\ cache_enabled

KeyNext == \E c \in Calls, t \in KeyMenu : Start(c, t)

KeySpec == KeyInit /\ [][KeyNext]_vars

\* Calls of the four payload variants whose tool names and texts contain the
\* delimiter of the key and the tags of other variants.
VariantNames ==
    {<<"t">>, <<"t", "|", "fn", "|", "a">>, <<"t", "|", "mcp", "|", "s">>}

VariantTexts ==
    {<<"b">>, <<"a", "|", "custom", "|", "b">>, <<"s", "|", "b", "|", "b">>}

VariantMenu ==
    {[tool_name |-> n, payload |-> [variant |-> "Function", arguments |-> x]] :
        n \in VariantNames, x \in VariantTexts}
    \cup
    {[tool_name |-> n, payload |-> [variant |-> "Custom", input |-> x]] :
        n \in VariantNames, x \in VariantTexts}
    \cup
    {[tool_name |-> n,
      payload |-> [variant |-> "Mcp", server |-> <<"s">>, tool |-> <<"b">>,
                   raw_arguments |-> x]] :
        n \in VariantNames, x \in VariantTexts}
    \cup
    {[tool_name |-> n,
      payload |-> [variant |-> "LocalShell",
                   params |-> [command |-> << x >>, workdir |-> w,
                               timeout_ms |-> NoneV]]] :
        n \in VariantNames, x \in VariantTexts, w \in {NoneV, Some(<<"b">>)}}

VariantInit == Init /\ cache_enabled

VariantNext == \E c \in Calls, t \in VariantMenu : Start(c, t)

VariantSpec == VariantInit /\ [][VariantNext]_vars

\* The session cache alone: a fresh SessionState, then puts and gets while the
\* clock advances.
CacheInit == Init /\ cache_enabled

CacheNext ==
    \/ \E key \in CacheKeys, response \in CacheResponses, max_entries \in 0..MaxEntries :
          PutCachedToolResult(key, response, max_entries)
    \/ \E key \in CacheKeys, max_age \in 0..MaxAge : GetCachedToolResult(key, max_age)
    \/ Tick

CacheSpec == CacheInit /\ [][CacheNext]_vars

\* ================================================================ claims

\* The text a response carries.
BodyOf(r) ==
    CASE r.variant = "FunctionCallOutput" -> r.output.body
      [] r.variant = "McpToolCallOutput" -> r.result.v
      [] r.variant = "CustomToolCallOutput" -> r.output
      [] r.variant = "Message" -> r.content

\* A response synthesized on cancellation.
IsAborted(r) == \E c \in Calls : pc[c] # "idle" /\ BodyOf(r) = abort_message(call[c])

\* Cache-eligible, in the words of the data model: not a Message, not a
\* function output with success == Some(false), not an MCP output with an error.
Eligible(r) ==
    /\ r.variant # "Message"
    /\ ~(r.variant = "FunctionCallOutput" /\ r.output.success = Some(FALSE))
    /\ ~(r.variant = "McpToolCallOutput" /\ ~r.result.ok)

\* Every response held by the turn cache, the session cache or a channel.
Stored ==
    {turn_result_cache[k] : k \in DOMAIN turn_result_cache}
    \cup {session.cache[k].response : k \in DOMAIN session.cache}
    \cup {channel[c].value.v : c \in {d \in Calls : channel[d].value.some}}

\* Call c joined the slot of another call.
Follower(c) == waiting_on_existing[c] # {}

\* The key of call c is registered with c's channel.
Registered(c) ==
    /\ cache_key[c] \in DOMAIN turn_inflight_cache
    /\ turn_inflight_cache[cache_key[c]] = c

\* C1 (as claimed): when all calls of the turn were in flight together, share
\* one cache key on a turn-cacheable tool that does not support parallel calls,
\* none was cancelled or dropped, and every response of the router was
\* cache-eligible, the router was invoked exactly once and every caller got
\* that invocation's response under its own call_id.
C1_SingleFlightExactlyOnce ==
    ( /\ \A c \in Calls : pc[c] = "done" /\ ~cancellation_token[c]
      /\ \A c, d \in Calls : c < d => c \in active_at_start[d]
      /\ \A c, d \in Calls : cache_key[c] = cache_key[d]
      /\ \A c \in Calls : supports_turn_cache(c) /\ ~supports_parallel(c)
      /\ \A c \in invoked : dispatched[c].v.ok /\ Eligible(dispatched[c].v.v) )
    => /\ Cardinality(invoked) = 1
       /\ \A c \in Calls : \A l \in invoked :
             result[c].v = Ok(remap_response_call_id(dispatched[l].v.v, c))

\* The execution of the leader that created channel l has ended.
LeaderEnded(l) == pc[l] \in {"done", "dropped"}

\* C2: a follower waiting on the slot of a leader whose execution has ended,
\* however it ended, eventually leaves the wait.
C2_FollowersReleased ==
    \A c \in Calls :
        (pc[c] = "follow" /\ LeaderEnded(Awaited(c))) ~> (pc[c] # "follow")

\* C2's case: a follower still waits although its leader has returned.
C2_Witness ==
    \E c \in Calls : /\ pc[c] = "follow"
                     /\ pc[Awaited(c)] = "done"
                     /\ via[Awaited(c)] = "aborted_dispatching"

\* What call c waits for has not happened: the slot is unpublished, the gate
\* is not to be had, or the router is still running.
Blocked(c) ==
    \/ pc[c] = "follow" /\ ~Changed(Awaited(c))
    \/ pc[c] = "gate" /\ ~GuardAvailable(parallel_execution, supports_parallel(c))
    \/ pc[c] = "router"

C4_CancelledFollowerAborts ==
    \A c \in Calls :
        (pc[c] = "done" /\ fired_before_publish[c])
            => result[c] = Some(Ok(aborted_response(call[c])))

\* The slot call c followed turned out to hold no value.
SawNone(c) ==
    /\ Follower(c)
    /\ pc[c] = "done"
    /\ via[c] \notin {"inflight", "aborted_following"}

C6_GateExclusion ==
    \A c, d \in Calls :
        (c # d /\ pc[c] = "router" /\ ~supports_parallel(c)) => pc[d] # "router"

\* C6's case: an exclusive call is inside the router and another call waits
\* for the gate.
C6_Witness ==
    \E c, d \in Calls :
        /\ pc[c] = "router" /\ ~supports_parallel(c)
        /\ pc[d] = "gate"

\* C6, second half: two calls for tools that support parallel calls are inside
\* the router together.
C6_ParallelTogether ==
    \E c, d \in Calls :
        /\ c # d
        /\ pc[c] = "router" /\ supports_parallel(c)
        /\ pc[d] = "router" /\ supports_parallel(d)

\* C7 (as claimed): once the execution of a call has ended, its key is not
\* registered with its channel.
C7_SlotRemovedWhenLeaderEnds ==
    \A c \in Calls : pc[c] \in {"done", "dropped"} => ~Registered(c)

\* C8: no two calls hold the sender of a slot for the same key.
C8_OneLeaderPerKey ==
    \A c, d \in Calls :
        (c # d /\ shared_result_sender[c] /\ shared_result_sender[d])
            => cache_key[c] # cache_key[d]

\* C8's case: a call holds the sender and another call with the same key
\* follows it.
C8_Witness ==
    \E c, d \in Calls :
        /\ shared_result_sender[c]
        /\ pc[d] = "follow" /\ Awaited(d) = c /\ cache_key[d] = cache_key[c]

\* C9: no cache and no slot holds a response synthesized on cancellation.
C9_AbortedNeverStored == \A r \in Stored : ~IsAborted(r)

\* C9's case: a leader's cancelled branch won and the leader has published.
C9_Witness ==
    \E c \in Calls :
        /\ via[c] = "aborted_dispatching"
        /\ channel[c].version > 0
        /\ should_cache_tool_response(result[c].v.v)

\* C10: every response held by a cache or a slot is cache-eligible.
C10_OnlyEligibleStored == \A r \in Stored : Eligible(r)

\* C10's case: a leader whose response was not cache-eligible has published,
\* while a cache holds an entry.
C10_Witness ==
    \E c \in Calls :
        /\ via[c] = "router" /\ channel[c].version > 0
        /\ result[c].v.ok /\ ~Eligible(result[c].v.v)
        /\ DOMAIN turn_result_cache # {}

\* ------------------------------------------------------ the session cache

\* The positions of trace.
Ops == 1..Len(trace)

\* C11: tool_result_cache_order holds exactly the keys of tool_result_cache,
\* each once, and an entry stored earlier stands before one stored later.
C11_OrderMatchesEntries ==
    LET order == session.order IN
    /\ {order[i] : i \in 1..Len(order)} = DOMAIN session.cache
    /\ \A i, j \in 1..Len(order) :
          i < j => /\ order[i] # order[j]
                   /\ session.cache[order[i]].stored_at
                         <= session.cache[order[j]].stored_at

\* C11's case: a get has dropped an expired entry, a key was put again, and
\* the cache holds two entries stored at different times.
C11_Witness ==
    /\ \E i \in Ops : trace[i].op = "get" /\ trace[i].removed # {}
    /\ Len(session.order) = 2
    /\ session.cache[session.order[1]].stored_at
          < session.cache[session.order[2]].stored_at

\* The keys put so far, in the order of the puts.
PutKeys ==
    LET puts == SelectSeq(trace, LAMBDA e : e.op = "put")
    IN [i \in 1..Len(puts) |-> puts[i].key]

\* The last n distinct elements of a sequence (all, if there are fewer).
RECURSIVE LastDistinct(_, _, _)
LastDistinct(seq, n, acc) ==
    IF seq = <<>> \/ Cardinality(acc) = n THEN acc
    ELSE LastDistinct(SubSeq(seq, 1, Len(seq) - 1), n, acc \cup {seq[Len(seq)]})

\* C12: when every put so far used the same max_entries n >= 1 and no get
\* dropped an entry, the cache holds the last n distinct keys put.
C12_BoundedFifo ==
    \A n \in 1..MaxEntries :
        (\A i \in Ops : \/ trace[i].op = "put" /\ trace[i].arg = n
                        \/ trace[i].op = "get" /\ trace[i].removed = {})
            => /\ Cardinality(DOMAIN session.cache) <= n
               /\ DOMAIN session.cache = LastDistinct(PutKeys, n, {})

\* C12's case: a, b, c were put with max_entries 2, and a is gone.
C12_Witness ==
    /\ PutKeys = << <<"a">>, <<"b">>, <<"c">> >>
    /\ \A i \in Ops : trace[i].op = "put" /\ trace[i].arg = 2
    /\ DOMAIN session.cache = {<<"b">>, <<"c">>}

\* C13: a get with max_age 0 returns None and leaves the cache empty, so the
\* get after it returns None too.
C13_ZeroAgeDisables ==
    \A i \in Ops :
        (trace[i].op = "get" /\ trace[i].arg = 0) =>
            /\ ~trace[i].response.some
            /\ i = Len(trace) => session = EmptyToolCache
            /\ (i < Len(trace) /\ trace[i + 1].op = "get")
                  => ~trace[i + 1].response.some

\* C13's case: a key was put, read with max_age 0 at once, and read again
\* with the largest max_age.
C13_Witness ==
    /\ Len(trace) >= 3
    /\ trace[1].op = "put" /\ trace[1].arg >= 1
    /\ trace[2].op = "get" /\ trace[2].arg = 0 /\ trace[2].key = trace[1].key
    /\ trace[3].op = "get" /\ trace[3].arg = MaxAge /\ trace[3].key = trace[1].key

\* The get at position i reads what the put at position j stored: same key,
\* max_entries >= 1, no put of the key and no removal of it in between, and
\* the entry is not older than the get's max_age.
ReadsBack(j, i) ==
    /\ j < i
    /\ trace[j].op = "put" /\ trace[i].op = "get"
    /\ trace[j].key = trace[i].key
    /\ trace[j].arg >= 1
    /\ \A m \in (j + 1)..(i - 1) :
          /\ ~(trace[m].op = "put" /\ trace[m].key = trace[i].key)
          /\ trace[i].key \notin trace[m].removed
    /\ trace[i].at - trace[j].at <= trace[i].arg

\* C14 (as claimed): such a get returns the response that was put.
C14_RoundTrip ==
    \A i, j \in Ops : ReadsBack(j, i) => trace[i].response = trace[j].response

\* C14 (amended): it does when its max_age is not zero.
C14_RoundTripAmended ==
    \A i, j \in Ops :
        (ReadsBack(j, i) /\ trace[i].arg > 0) => trace[i].response = trace[j].response

\* C14's case: a response stored under call_id 2 is read back a second later,
\* after a put of another key, by a get whose max_age is that second.
C14_Witness ==
    \E i, j \in Ops :
        /\ ReadsBack(j, i) /\ i > j + 1
        /\ trace[i].arg = 1 /\ trace[i].at = trace[j].at + 1
        /\ trace[i].response = Some(FunctionCallOutput(2, <<"B">>, NoneV))

\* ------------------------------------------------- what the caller gets

\* The call_id a response carries; a Message carries none.
CallIdOf(r) == IF r.variant = "Message" THEN NoneV ELSE Some(r.call_id)

\* The responses the router returned to call d.
Produced(d) == {o.v : o \in {x \in RouterOutcomes(d) : x.ok}}

\* C15: a response the caller gets carries the caller's call_id, from whatever
\* place it came; what the caches and the slots hold is the response as the
\* router returned it to the call that invoked it.
C15_CallIdRewritten ==
    /\ \A c \in Calls :
          (pc[c] = "done" /\ Returned(c).ok)
              => CallIdOf(Returned(c).v) \in {NoneV, Some(call[c].call_id)}
    /\ \A r \in Stored : \E d \in invoked : r \in Produced(d)

\* C15's case: a follower returned the response its leader published, and the
\* turn cache holds that response under the leader's call_id.
C15_Witness ==
    \E c \in Calls :
        /\ pc[c] = "done" /\ via[c] = "inflight"
        /\ CallIdOf(Returned(c).v) = Some(call[c].call_id)
        /\ CallIdOf(turn_result_cache[cache_key[c]]) = Some(call[Awaited(c)].call_id)
        /\ Awaited(c) # c

\* The router returned an error to call c.
RouterFailed(c) == dispatched[c].some /\ ~dispatched[c].v.ok

\* Call c registered a slot: it is for a turn-cacheable tool and followed none.
Led(c) == supports_turn_cache(c) /\ ~Follower(c)

\* C17: a call to which the router returned an error returns Fatal with the
\* error's message; if it led a slot it has published None and removed its
\* key; and no step it takes from the router's return on changes a cache.
C17_RouterFailure ==
    /\ [](\A c \in Calls :
            (pc[c] = "done" /\ RouterFailed(c)) =>
                /\ Returned(c) = Err(CodexErrFatal(dispatched[c].v.v.message))
                /\ Led(c) => /\ channel[c].version > 0
                             /\ channel[c].value = NoneV
                             /\ ~Registered(c))
    /\ [][\A c \in Calls :
            (pc'[c] # pc[c] /\ dispatched'[c].some /\ ~dispatched'[c].v.ok)
                => /\ turn_result_cache' = turn_result_cache
                   /\ session' = session]_vars

\* C17's case: a leader got a non-fatal error from the router and returned.
C17_Witness ==
    \E c \in Calls :
        /\ pc[c] = "done" /\ Led(c)
        /\ dispatched[c] = Some(Err(RespondToModel(Body(c))))

\* The session cache holds an entry for the key of call c that is not older
\* than the TTL.
SessionFresh(c) ==
    /\ cache_key[c] \in DOMAIN session.cache
    /\ now - session.cache[cache_key[c]].stored_at <= TOOL_RESULT_CACHE_TTL_SECS

\* C18: a call that asks the session cache while it holds a fresh entry takes
\* that entry; it copies it into the turn cache under its key and returns it
\* under its own call_id; it has not invoked the router and has no part in the
\* in-flight registry.
C18_SessionCacheHit ==
    /\ [][\A c \in Calls :
            /\ (pc[c] = "session_get" /\ pc'[c] \notin {pc[c], "dropped"}
                  /\ SessionFresh(c))
                  => /\ cached'[c] = Some(session.cache[cache_key[c]].response)
                     /\ pc'[c] = "promote"
            /\ (pc[c] = "promote" /\ pc'[c] \notin {pc[c], "dropped"})
                  => /\ pc'[c] = "done"
                     /\ cache_key[c] \in DOMAIN turn_result_cache'
                     /\ turn_result_cache'[cache_key[c]] = cached[c].v
                     /\ Returned(c)' = Ok(remap_response_call_id(cached[c].v,
                                                                 call[c].call_id))]_vars
    /\ [](\A c \in Calls :
            via[c] = "session_cache"
                => /\ c \notin invoked
                   /\ ~Follower(c) /\ ~Registered(c) /\ channel[c] = NewChannel)

\* C18's case: in a later turn a call returned the entry an earlier turn had
\* left in the session cache, and the turn cache now holds it.
C18_Witness ==
    \E c \in Calls :
        /\ pc[c] = "done" /\ via[c] = "session_cache"
        /\ cached[c] = Some(EarlierResponse)
        /\ turn_result_cache[cache_key[c]] = EarlierResponse

\* Call c holds a guard of the execution gate.
HoldsGuard(c) == c \in parallel_execution.readers \cup parallel_execution.writer

\* C19 (as claimed): a call that holds a guard of the gate is inside the
\* router.
C19_GuardOnlyAcrossRouter ==
    \A c \in Calls : HoldsGuard(c) => pc[c] = "router"

\* C20 (as claimed): when a call returned the aborted response from the
\* dispatching select!, no cache holds a response of its router invocation.
C20_AbortedLeavesNoEntry ==
    \A c \in Calls :
        (pc[c] = "done" /\ via[c] = "aborted_dispatching")
            => /\ \A k \in DOMAIN turn_result_cache :
                     turn_result_cache[k] \notin Produced(c)
               /\ \A k \in DOMAIN session.cache :
                     session.cache[k].response \notin Produced(c)

\* ------------------------------------------------------------ cache keys

\* The JSON text a Function or Mcp call carries.
ArgumentsOf(cl) ==
    IF cl.payload.variant = "Function" THEN cl.payload.arguments
    ELSE cl.payload.raw_arguments

\* Two JSON values are the same data: objects with the same keys and the same
\* data under each key, arrays with the same data at each index, equal
\* strings and scalars.
MemberOf(v, k) == (CHOOSE i \in 1..Len(v.members) : v.members[i][1] = k)

KeysOf(v) == {v.members[i][1] : i \in 1..Len(v.members)}

RECURSIVE SameData(_, _)
SameData(v, w) ==
    IF v.t # w.t THEN FALSE
    ELSE IF v.t = "object"
    THEN /\ KeysOf(v) = KeysOf(w)
         /\ \A k \in KeysOf(v) :
               SameData(v.members[MemberOf(v, k)][2], w.members[MemberOf(w, k)][2])
    ELSE IF v.t = "array"
    THEN /\ Len(v.items) = Len(w.items)
         /\ \A i \in 1..Len(v.items) : SameData(v.items[i], w.items[i])
    ELSE v = w

\* Calls c and d are alike but for their call_id and their JSON arguments.
AlikeButArguments(c, d) ==
    /\ pc[c] # "idle" /\ pc[d] # "idle"
    /\ call[c].payload.variant \in {"Function", "Mcp"}
    /\ call[c].tool_name = call[d].tool_name
    /\ call[c].payload.variant = call[d].payload.variant

\* C16: two such calls whose arguments are the same data get equal keys; when
\* the data differ, as arrays in another order do, the keys differ.
C16_KeyCanonical ==
    \A c, d \in Calls :
        AlikeButArguments(c, d) =>
            (SameData(from_str(ArgumentsOf(call[c])).val,
                      from_str(ArgumentsOf(call[d])).val)
                <=> cache_key[c] = cache_key[d])

\* C16's case: two calls with different call_ids whose arguments are not the
\* same text but the same data, permuted inside a nested object, got one key.
C16_Witness ==
    \E c, d \in Calls :
        /\ AlikeButArguments(c, d) /\ call[c].call_id # call[d].call_id
        /\ ArgumentsOf(call[c]) # ArgumentsOf(call[d])
        /\ Len(ArgumentsOf(call[c])) > 20 /\ Len(ArgumentsOf(call[d])) > 20
        /\ cache_key[c] = cache_key[d]

\* ------------------------------------------------------ reuse within a turn

\* Call d, for a turn-cacheable tool, had returned a cache-eligible response of
\* the router before call c, with the same cache key, was issued.
ReturnedBefore(d, c) ==
    /\ d < c /\ pc[c] # "idle" /\ d \notin active_at_start[c]
    /\ pc[d] = "done" /\ via[d] = "router"
    /\ supports_turn_cache(d)
    /\ result[d].v.ok /\ Eligible(result[d].v.v)
    /\ cache_key[c] = cache_key[d]

\* C21: no step removes a key from the turn cache; a call issued after a call
\* with the same key returned a cache-eligible response of the router goes no
\* further than the first read of the turn cache, does not invoke the router,
\* and returns the entry it reads there under its own call_id.
C21_TurnCacheReuse ==
    /\ [][DOMAIN turn_result_cache \subseteq DOMAIN turn_result_cache']_vars
    /\ [](\A c, d \in Calls :
            ReturnedBefore(d, c) =>
                /\ cache_key[c] \in DOMAIN turn_result_cache
                /\ pc[c] \in {"turn_get", "done", "dropped"}
                /\ c \notin invoked
                /\ pc[c] = "done" => via[c] = "turn_cache")
    /\ [][\A c \in Calls :
            (pc[c] = "turn_get" /\ pc'[c] = "done") =>
                result'[c] = Some(Ok(remap_response_call_id(
                                 turn_result_cache[cache_key[c]], call[c].call_id)))]_vars

\* C21's case: a call returned the router's response, the next call with the
\* same key was issued after that and returned that response from the turn
\* cache under its own call_id.
C21_Witness ==
    \E c, d \in Calls :
        /\ ReturnedBefore(d, c)
        /\ pc[c] = "done" /\ via[c] = "turn_cache"
        /\ result[c].v = Ok(remap_response_call_id(dispatched[d].v.v, call[c].call_id))
        /\ result[c].v # result[d].v

\* ------------------------------------------------------------ single flight

\* The leader that created channel l has sent on it.
Published(l) == channel[l].version > 0

\* Call c has the receiver of leader l's slot: it waits on it, or it is inside
\* the registry's critical section and finds it under its key.
HasReceiverOf(c, l) ==
    \/ pc[c] = "follow" /\ Awaited(c) = l
    \/ /\ pc[c] = "join" /\ c \in lock.turn_inflight_cache
       /\ cache_key[c] \in DOMAIN turn_inflight_cache
       /\ turn_inflight_cache[cache_key[c]] = l

\* C22: for a follower of a slot whose leader has published or has ended,
\* changed() is ready whenever the follower came to wait; the follower leaves
\* the wait; and when it leaves it takes the value the slot holds, or reads
\* the turn cache when the slot holds none, or, cancelled, returns the aborted
\* response.
C22_NoLostWakeup ==
    /\ [](\A c \in Calls :
            (pc[c] = "follow" /\ (Published(Awaited(c)) \/ LeaderEnded(Awaited(c))))
                => Changed(Awaited(c)))
    /\ \A c \in Calls :
          (\E l \in Calls : HasReceiverOf(c, l) /\ (Published(l) \/ LeaderEnded(l)))
              ~> (pc[c] \notin {"join", "follow"})
    /\ [][\A c \in Calls :
            (pc[c] = "follow" /\ pc'[c] \notin {"follow", "dropped"}) =>
                \/ /\ cancellation_token[c]
                   /\ result'[c] = Some(Ok(aborted_response(call[c])))
                \/ /\ Published(Awaited(c)) \/ LeaderEnded(Awaited(c))
                   /\ IF channel[Awaited(c)].value.some
                      THEN result'[c] = Some(Ok(remap_response_call_id(
                                             channel[Awaited(c)].value.v,
                                             call[c].call_id)))
                      ELSE pc'[c] = "follow_turn_get"]_vars

\* C22's case: a call is inside the registry's critical section and finds its
\* key registered by a leader that has already published a value and has not
\* yet removed the key.
C22_Witness ==
    \E c, l \in Calls :
        /\ pc[c] = "join" /\ HasReceiverOf(c, l)
        /\ pc[l] = "remove" /\ channel[l].value.some

\* -------------------------------------------------------------- termination

\* Call c waits for something only call d can give: a Mutex d holds, the gate
\* while d holds a guard of it, or the slot of leader d, still unresolved.
WaitsFor(c, d) ==
    \/ /\ pc[c] \in LockStages
       /\ c \notin lock[LockOf(pc[c])]
       /\ d \in lock[LockOf(pc[c])]
    \/ /\ pc[c] = "gate"
       /\ ~GuardAvailable(parallel_execution, supports_parallel(c))
       /\ HoldsGuard(d)
    \/ /\ pc[c] = "follow"
       /\ ~Changed(Awaited(c))
       /\ d = Awaited(c)

\* C23: no set of calls waits in a circle, and when every invocation of the
\* router returns, every call that was issued ends.
C23_Termination ==
    /\ [](\A S \in SUBSET Calls :
            S # {} => \E c \in S : \A d \in S : ~WaitsFor(c, d))
    /\ \A c \in Calls : (pc[c] # "idle") ~> (pc[c] \in {"done", "dropped"})

\* C23's case: a leader that holds a guard of the gate waits for the turn
\* cache's lock while another call reads the turn cache.
C23_Witness ==
    \E c, d \in Calls :
        /\ WaitsFor(c, d) /\ HoldsGuard(c) /\ shared_result_sender[c]
        /\ pc[d] = "turn_get"

\* -------------------------------------------------------------------- locks

\* C24: a call that awaits the router or the resolution of a slot holds none
\* of the three Mutexes; a call holds a Mutex only at the statement that
\* locked it, and never two.
C24_NoLockAcrossWait ==
    \A c \in Calls :
        /\ pc[c] \in {"router", "follow"} => ~Holds(c)
        /\ \A l \in DOMAIN lock :
              c \in lock[l] => /\ pc[c] \in LockStages
                               /\ LockOf(pc[c]) = l
                               /\ lock[l] = {c}

\* C24's case: a call waits on a slot while its leader, back from the router,
\* holds the turn cache's lock to store its response.
C24_Witness ==
    \E c, d \in Calls :
        /\ pc[c] = "follow" /\ Awaited(c) = d
        /\ pc[d] = "store_turn" /\ d \in lock.turn_result_cache

\* ------------------------------------------------- cancelling a follower

\* C25: a step in which the token of a waiting follower fires, or in which the
\* follower leaves the wait with the aborted response, changes nothing of its
\* leader: not its token, its place, its guard, its channel or the registry.
\* A call returns the aborted response only when its own token has fired; a
\* leader's key stays registered for as long as it holds the sender; and a
\* follower whose token has not fired returns the value its leader published.
C25_FollowerCancelLeavesLeader ==
    /\ [][\A c \in SlotCalls :
            ( /\ pc[c] = "follow"
              /\ \/ cancellation_token'[c] # cancellation_token[c]
                 \/ pc'[c] = "done" /\ via'[c] = "aborted_following" )
            => LET l == Awaited(c) IN
                /\ cancellation_token'[l] = cancellation_token[l]
                /\ cancelled'[l] = cancelled[l]
                /\ pc'[l] = pc[l]
                /\ channel'[l] = channel[l]
                /\ shared_result_sender'[l] = shared_result_sender[l]
                /\ turn_inflight_cache' = turn_inflight_cache
                /\ parallel_execution' = parallel_execution]_vars
    /\ [](\A c \in SlotCalls :
            /\ via[c] \in {"aborted_following", "aborted_dispatching"}
                  => cancellation_token[c]
            /\ shared_result_sender[c] => Registered(c)
            /\ ( /\ Follower(c) /\ pc[c] = "done" /\ ~cancellation_token[c]
                 /\ channel[Awaited(c)].value.some )
                  => /\ via[c] = "inflight"
                     /\ result[c] = Some(Ok(remap_response_call_id(
                                         channel[Awaited(c)].value.v,
                                         call[c].call_id))))

\* C25's case: of two followers of one slot, one was cancelled while it waited
\* and returned the aborted response; the leader, not cancelled, returned the
\* router's response, and the other follower returned it too.
C25_Witness ==
    \E l, c, d \in SlotCalls :
        /\ c # d
        /\ Follower(c) /\ Awaited(c) = l /\ Follower(d) /\ Awaited(d) = l
        /\ pc[c] = "done" /\ via[c] = "aborted_following" /\ fired_before_publish[c]
        /\ pc[l] = "done" /\ via[l] = "router" /\ ~cancellation_token[l]
        /\ pc[d] = "done" /\ via[d] = "inflight" /\ ~cancellation_token[d]
        /\ result[d].v = Ok(remap_response_call_id(result[l].v.v, call[d].call_id))

\* ------------------------------------------------- outside the allow-list

\* The tool of the menu that the list of tool_supports_turn_cache leaves out.
Unlisted == {<<"shell">>}

\* Call c was issued for such a tool.
OutsideAllowList(c) == pc[c] # "idle" /\ call[c].tool_name \in Unlisted

\* C26: a call for a tool that is not turn-cacheable goes from the gate to the
\* router and returns; it takes none of the three locks, its steps leave the
\* turn cache, the session cache and the registry as they are, and none of
\* them holds its key; it invokes the router once, and when its token has not
\* fired it returns what that invocation returned; two such calls for a tool
\* that does not support parallel calls are never inside the router together.
C26_NoDeduplicationOutsideList ==
    /\ [](\A c \in Calls :
            OutsideAllowList(c) =>
                /\ pc[c] \in {"gate", "router", "done", "dropped"}
                /\ ~Holds(c) /\ ~Follower(c) /\ ~shared_result_sender[c]
                /\ cache_key[c] \notin DOMAIN turn_result_cache
                                       \cup DOMAIN session.cache
                                       \cup DOMAIN turn_inflight_cache
                /\ c \in invoked => pc[c] # "gate"
                /\ (pc[c] = "done" /\ ~cancellation_token[c])
                      => /\ c \in invoked
                         /\ via[c] = "router"
                         /\ result[c] = dispatched[c]
                /\ \A d \in Calls \ {c} :
                      (OutsideAllowList(d) /\ ~supports_parallel(c)
                        /\ pc[c] = "router") => pc[d] # "router")
    /\ [][\A c \in Calls :
            (OutsideAllowList(c) /\ pc'[c] # pc[c]) =>
                /\ turn_result_cache' = turn_result_cache
                /\ session' = session
                /\ turn_inflight_cache' = turn_inflight_cache
                /\ lock' = lock]_vars

\* C26's case: two identical shell calls, in flight together under a router
\* that does not run shell calls in parallel, neither cancelled, have each
\* returned the response of their own invocation of the router.
C26_Witness ==
    \E c, d \in Calls :
        /\ c # d /\ c \in active_at_start[d]
        /\ OutsideAllowList(c) /\ OutsideAllowList(d)
        /\ cache_key[c] = cache_key[d] /\ ~supports_parallel(c)
        /\ pc[c] = "done" /\ pc[d] = "done"
        /\ ~cancellation_token[c] /\ ~cancellation_token[d]
        /\ invoked = {c, d}
        /\ result[c].v.ok /\ BodyOf(result[c].v.v) = Body(c)
        /\ result[d].v.ok /\ BodyOf(result[d].v.v) = Body(d)

\* ------------------------------------------- the session cache, step by step

\* The step appends a call to trace; Made is that call.
CallMade == Len(trace') = Len(trace) + 1

Made == trace'[Len(trace')]

\* Sequence a is the end of sequence b.
IsSuffix(a, b) ==
    /\ Len(a) <= Len(b)
    /\ a = SubSeq(b, Len(b) - Len(a) + 1, Len(b))

\* The queue without one key.
Without(order, key) == SelectSeq(order, LAMBDA k : k # key)

\* C27: a put with max_entries >= 1 leaves its key at the newest position of
\* the queue with the response put and the time of the put, and the other
\* keys that remain in the order they had; a get leaves the entries that
\* remain as they were and in the order they had.  So after put k1, put k2
\* with max_entries 2, a third key put after a get of k1 evicts k1, and put
\* after another put of k1 it evicts k2.
C27_RefreshOnPutOnly ==
    /\ [][(CallMade /\ Made.op = "put" /\ Made.arg >= 1) =>
            /\ session'.order # <<>>
            /\ session'.order[Len(session'.order)] = Made.key
            /\ session'.cache[Made.key] = [stored_at |-> now, response |-> Made.response.v]
            /\ IsSuffix(Without(session'.order, Made.key),
                        Without(session.order, Made.key))
            /\ \A k \in DOMAIN session'.cache \ {Made.key} :
                  session'.cache[k] = session.cache[k]]_vars
    /\ [][(CallMade /\ Made.op = "get") =>
            /\ session'.order = SelectSeq(session.order,
                                          LAMBDA k : k \in DOMAIN session'.cache)
            /\ session'.cache = Restrict(session.cache, DOMAIN session'.cache)]_vars
    /\ []( ( /\ Len(trace) = 4
             /\ \A i \in {1, 2, 4} : trace[i].op = "put" /\ trace[i].arg = 2
             /\ trace[1].key # trace[2].key
             /\ trace[3].key = trace[1].key
             /\ trace[4].key \notin {trace[1].key, trace[2].key} )
           => /\ (trace[3].op = "get" /\ trace[3].removed = {})
                    => /\ trace[4].removed = {trace[1].key}
                       /\ session.order = <<trace[2].key, trace[4].key>>
              /\ (trace[3].op = "put" /\ trace[3].arg = 2)
                    => /\ trace[4].removed = {trace[2].key}
                       /\ session.order = <<trace[1].key, trace[4].key>> )

\* C27's case: put a, put b, a get that returns a's response, put c, all
\* puts with max_entries 2: a is evicted.
C27_Witness ==
    /\ Len(trace) = 4
    /\ \A i \in {1, 2, 4} : trace[i].op = "put" /\ trace[i].arg = 2
    /\ trace[1].key = <<"a">> /\ trace[2].key = <<"b">> /\ trace[4].key = <<"c">>
    /\ trace[3].op = "get" /\ trace[3].key = <<"a">>
    /\ trace[3].response = trace[1].response
    /\ trace[4].removed = {<<"a">>}

\* The age of the entry under key k, read at the time of the step.
Age(k) == now - session.cache[k].stored_at

\* C28: a get with max_age > 0 leaves exactly the entries whose age is at most
\* max_age, unchanged, whatever their keys; it returns the response under its
\* key when that entry is among them, and None otherwise.
C28_ExpiryOnRead ==
    [][(CallMade /\ Made.op = "get" /\ Made.arg > 0) =>
        LET fresh == {k \in DOMAIN session.cache : Age(k) <= Made.arg} IN
        /\ session'.cache = Restrict(session.cache, fresh)
        /\ Made.removed = DOMAIN session.cache \ fresh
        /\ Made.response = IF Made.key \in fresh
                           THEN Some(session.cache[Made.key].response)
                           ELSE NoneV]_vars

\* C28's case: a get with max_age 1 has just returned the response of an
\* entry exactly one second old and has dropped an older entry under another
\* key.
C28_Witness ==
    /\ trace # <<>>
    /\ LET last == trace[Len(trace)] IN
        /\ last.op = "get" /\ last.arg = 1 /\ last.at = now
        /\ last.response.some
        /\ last.key \in DOMAIN session.cache
        /\ Age(last.key) = 1
        /\ last.removed # {} /\ last.key \notin last.removed

\* C29: a put with max_entries 0 leaves the entry map and the queue empty,
\* the new response not stored; every get that follows it, until a put with
\* max_entries >= 1, returns None.
C29_ZeroEntriesDisables ==
    /\ [][(CallMade /\ Made.op = "put" /\ Made.arg = 0) =>
            /\ session' = EmptyToolCache
            /\ Made.removed = DOMAIN session.cache]_vars
    /\ [](\A i, j \in Ops :
            ( /\ i < j
              /\ trace[i].op = "put" /\ trace[i].arg = 0
              /\ trace[j].op = "get"
              /\ \A m \in (i + 1)..(j - 1) :
                    ~(trace[m].op = "put" /\ trace[m].arg >= 1) )
            => ~trace[j].response.some)

\* C29's case: with two entries stored, a put with max_entries 0 removed both,
\* and a get of one of them, of its own key or of the key just put, with the
\* largest max_age, returned None.
C29_Witness ==
    /\ Len(trace) = 4
    /\ trace[3].op = "put" /\ trace[3].arg = 0
    /\ Cardinality(trace[3].removed) = 2
    /\ trace[4].op = "get" /\ trace[4].arg = MaxAge
    /\ trace[4].key \in trace[3].removed \cup {trace[3].key}
    /\ ~trace[4].response.some
    /\ session = EmptyToolCache

\* ------------------------------------------------ keys of different variants

\* Calls c and d were issued with payloads of different variants.
VariantsDiffer(c, d) ==
    /\ pc[c] # "idle" /\ pc[d] # "idle"
    /\ call[c].payload.variant # call[d].payload.variant

\* C30 (as claimed): two calls whose payloads are of different variants have
\* different cache keys, whatever their tool names and texts.
C30_VariantsNeverCollide ==
    \A c, d \in Calls : VariantsDiffer(c, d) => cache_key[c] # cache_key[d]

\* What does hold: two such calls for one tool have different cache keys.
C30_SameToolVariantsDiffer ==
    \A c, d \in Calls :
        (VariantsDiffer(c, d) /\ call[c].tool_name = call[d].tool_name)
            => cache_key[c] # cache_key[d]

====
